---- MODULE Spec2Model ----
(***************************************************************************)
(* State-machine model of server.py: the Gmail / Calendar adapter.         *)
(*                                                                         *)
(* One tool or resource invocation runs at a time (the runtime dispatches  *)
(* synchronously).  An invocation walks through get_credentials            *)
(* (load token.pickle, refresh or interactive flow, dump token.pickle),    *)
(* build(), the provider requests of the handler and the handler's return. *)
(* Text is modelled as a sequence of string pieces: an f-string is the     *)
(* sequence of its literal pieces and interpolated values, "\n".join is    *)
(* concatenation with a "\n" piece between the joined texts.               *)
(*                                                                         *)
(* Spec is the whole adapter with representative provider payloads;        *)
(* SpecProvider runs the handlers from build() on against every provider   *)
(* payload within the bounds.                                              *)
(***************************************************************************)
EXTENDS Integers, Sequences, FiniteSets, TLC

\* ------------------------------------------------------------------ bounds
\* Access tokens the provider may issue are 1..MaxToken.
MaxToken == 2
\* A list response (events, message ids) carries at most MaxItems items.
MaxItems == 2
\* A fetched message carries at most MaxHeaders headers.
MaxHeaders == 2
\* A multipart message carries at most MaxParts parts.
MaxParts == 2

\* ------------------------------------------------------- python values
\* Python's None, and the marker of a provider request that raised.
None == [none |-> TRUE]
Raised == [raised |-> TRUE]

\* dict.get(key, default)
Get(d, key, default) == IF key \in DOMAIN d THEN d[key] ELSE default

\* ------------------------------------------------------------ credentials
GMAIL_SCOPE == "https://www.googleapis.com/auth/gmail.modify"
CALENDAR_SCOPE == "https://www.googleapis.com/auth/calendar"
SCOPES == {GMAIL_SCOPE, CALENDAR_SCOPE}

Tokens == 1..MaxToken

\* A pickled google.oauth2 Credentials object: the access token, whether its
\* expiry has passed, whether it carries a refresh token, the granted scopes.
CredentialRecords == [token : Tokens, expired : BOOLEAN, refresh_token : BOOLEAN, scopes : SUBSET SCOPES]

\* token.pickle holds a record, or does not exist (None).
TokenFiles == CredentialRecords \cup {None}

\* Fault variant: no loaded record counts as valid.
Valid_never(c) == FALSE
\* creds.valid: a token that has not expired (a pickled record always holds a token:
\* token.pickle is written only after a refresh or a flow that succeeded).
Valid(c) == ~c.expired

\* Fault variant: whatever was loaded is returned as it is.
NeedsAuthorization_never(c) == FALSE
\* line 31: not creds or not creds.valid
NeedsAuthorization(c) == c = None \/ ~Valid(c)

\* Fault variant: the refresh branch is never taken.
CanRefresh_never(c) == FALSE
\* line 32: creds and creds.expired and creds.refresh_token
CanRefresh(c) == c # None /\ c.expired /\ c.refresh_token

\* line 33: creds.refresh(Request()) that succeeds: a new access token, a new
\* expiry; the refresh token and the granted scopes stay.
Refreshed(c, t) == [c EXCEPT !.token = t, !.expired = FALSE]

\* lines 35-36: the record a completed interactive flow yields for SCOPES.
FlowCredentials(t, r) == [token |-> t, expired |-> FALSE, refresh_token |-> r, scopes |-> SCOPES]

\* Fault variant: a refresh that raises falls through to the interactive flow.
AfterRefreshError_flow == "flow"
\* line 33 is not guarded: a refresh that raises leaves get_credentials.
AfterRefreshError == "raise"

\* Fault variant: token.pickle is left as it was.
Dump_skip(file, c) == file
\* lines 37-38: pickle.dump(creds, token) overwrites token.pickle with creds.
Dump(file, c) == c

\* ------------------------------------------------------------------- text
\* Fault variant: the texts joined last to first.
RECURSIVE JoinLines_reversed(_)
JoinLines_reversed(texts) == IF texts = <<>> THEN <<>>
                             ELSE IF Len(texts) = 1 THEN texts[1]
                             ELSE JoinLines_reversed(Tail(texts)) \o <<"\n">> \o texts[1]
\* "\n".join(texts)
RECURSIVE JoinLines(_)
JoinLines(texts) == IF texts = <<>> THEN <<>>
                    ELSE IF Len(texts) = 1 THEN texts[1]
                    ELSE texts[1] \o <<"\n">> \o JoinLines(Tail(texts))

\* Fault variant: the last matching header instead of the first.
RECURSIVE NextValue_last(_, _, _)
NextValue_last(headers, name, default) == IF headers = <<>> THEN default
                                          ELSE IF headers[Len(headers)].name = name THEN headers[Len(headers)].value
                                          ELSE NextValue_last(SubSeq(headers, 1, Len(headers) - 1), name, default)
\* next((h['value'] for h in headers if h['name'] == name), default)
RECURSIVE NextValue(_, _, _)
NextValue(headers, name, default) == IF headers = <<>> THEN default
                                     ELSE IF Head(headers).name = name THEN Head(headers).value
                                     ELSE NextValue(Tail(headers), name, default)

\* ----------------------------------------------------------------- base64
\* The URL-safe alphabet of base64.urlsafe_b64decode; "=" pads.
B64Alphabet == << "A","B","C","D","E","F","G","H","I","J","K","L","M","N","O","P",
                  "Q","R","S","T","U","V","W","X","Y","Z","a","b","c","d","e","f",
                  "g","h","i","j","k","l","m","n","o","p","q","r","s","t","u","v",
                  "w","x","y","z","0","1","2","3","4","5","6","7","8","9","-","_" >>

B64Value(ch) == (CHOOSE i \in 1..Len(B64Alphabet) : B64Alphabet[i] = ch) - 1

\* binascii accepts whole quads of alphabet characters whose padding, if any,
\* is the last one or two characters; anything else here is "Incorrect padding".
B64Ok(s) == /\ Len(s) % 4 = 0
            /\ \A i \in 1..Len(s) : \/ \E k \in 1..Len(B64Alphabet) : B64Alphabet[k] = s[i]
                                     \/ /\ s[i] = "="
                                        /\ i >= Len(s) - 1
                                        /\ s[Len(s)] = "="
            /\ Len(s) > 0 => s[Len(s) - 3] # "=" /\ s[Len(s) - 2] # "="

\* The bytes of one quad: 4 sextets are 3 bytes, one pad drops one byte, two pads two.
QuadBytes(q) == LET pad == IF q[3] = "=" THEN 2 ELSE IF q[4] = "=" THEN 1 ELSE 0
                    v(i) == IF q[i] = "=" THEN 0 ELSE B64Value(q[i])
                    n == v(1) * 262144 + v(2) * 4096 + v(3) * 64 + v(4)
                IN  SubSeq(<<n \div 65536, (n \div 256) % 256, n % 256>>, 1, 3 - pad)

RECURSIVE B64Bytes(_)
B64Bytes(s) == IF s = <<>> THEN <<>>
               ELSE QuadBytes(SubSeq(s, 1, 4)) \o B64Bytes(SubSeq(s, 5, Len(s)))

\* bytes.decode(): UTF-8 to code points, or ok = FALSE for UnicodeDecodeError.
\* (Overlong and surrogate forms are not told apart from valid ones.)
Continuation(b, k) == \A i \in 2..k : b[i] \in 128..191

RECURSIVE Utf8Decode(_)
Utf8Decode(b) == IF b = <<>> THEN [ok |-> TRUE, text |-> <<>>]
                 ELSE LET k == IF b[1] < 128 THEN 1
                               ELSE IF b[1] \in 194..223 THEN 2
                               ELSE IF b[1] \in 224..239 THEN 3
                               ELSE IF b[1] \in 240..244 THEN 4
                               ELSE 0
                      IN  IF k = 0 \/ Len(b) < k \/ ~Continuation(b, k) THEN [ok |-> FALSE, text |-> <<>>]
                          ELSE LET cp == CASE k = 1 -> b[1]
                                           [] k = 2 -> (b[1] - 192) * 64 + (b[2] - 128)
                                           [] k = 3 -> (b[1] - 224) * 4096 + (b[2] - 128) * 64 + (b[3] - 128)
                                           [] k = 4 -> (b[1] - 240) * 262144 + (b[2] - 128) * 4096 + (b[3] - 128) * 64 + (b[4] - 128)
                                   rest == Utf8Decode(SubSeq(b, k + 1, Len(b)))
                               IN  [ok |-> rest.ok, text |-> <<cp>> \o rest.text]

\* The character of a code point as a text piece: a lower-case letter as itself,
\* any other code point by its U+XXXX name.
LowerCase == << "a","b","c","d","e","f","g","h","i","j","k","l","m",
                "n","o","p","q","r","s","t","u","v","w","x","y","z" >>
HexDigits == << "0","1","2","3","4","5","6","7","8","9","A","B","C","D","E","F" >>
HexDigit(cp, d) == HexDigits[((cp \div d) % 16) + 1]
Chr(cp) == IF cp \in 97..122 THEN LowerCase[cp - 96]
           ELSE "U+" \o HexDigit(cp, 4096) \o HexDigit(cp, 256) \o HexDigit(cp, 16) \o HexDigit(cp, 1)

Text(cps) == [i \in 1..Len(cps) |-> Chr(cps[i])]

\* ---------------------------------------------------------------- handlers
Tools == {"send_email", "list_events", "create_event", "search_emails", "get_email_content"}
Resources == {"get_emails"}
Handlers == Tools \cup Resources

\* get_gmail_service / get_calendar_service: the api each handler builds.
Api(h) == IF h \in {"list_events", "create_event"} THEN "calendar" ELSE "gmail"

\* The pc of the first provider request of each handler.
FirstCall(h) == CASE h = "send_email" -> "send"
                  [] h = "list_events" -> "list_events"
                  [] h = "create_event" -> "insert"
                  [] h = "search_emails" -> "list_messages"
                  [] h = "get_emails" -> "list_messages"
                  [] h = "get_email_content" -> "get_message"

\* Fault variant: the exception leaves the handler.
Except_escapes(h, e) == Raised
\* except Exception as e: a tool returns {"error": str(e)}, the resource str(e).
Except(h, e) == IF h \in Resources THEN [text |-> <<e>>] ELSE [error |-> <<e>>]

\* ------------------------------------------------------ provider payloads
SeqsUpTo(S, n) == UNION {[1..k -> S] : k \in 0..n}

MessageIds == {"m1", "m2"}
Links == {"https://calendar.example/e1"}

\* users().messages().send(...).execute(): the sent message, or an exception.
SendResponses == {Raised} \cup {[id |-> m] : m \in MessageIds}

\* events().insert(...).execute(): the inserted event, with or without a link.
InsertResponses == {Raised, [id |-> "e1"]} \cup {[id |-> "e1", htmlLink |-> l] : l \in Links}

\* A calendar event: 'summary' is left out of an untitled event, 'start' holds
\* 'dateTime', 'date' (an all-day event) or both.
Starts == {[dateTime |-> "2024-01-01T09:00:00Z"], [date |-> "2024-01-02"], [dateTime |-> "2024-01-03T10:00:00Z", date |-> "2024-01-03"]}
Summaries == {"Standup", "Lunch"}
Events == {[start |-> st] : st \in Starts} \cup {[start |-> st, summary |-> su] : st \in Starts, su \in Summaries}

\* events().list(...).execute(): 'items' is left out or lists the events.
EventsResponses == {Raised, [kind |-> "calendar#events"]} \cup {[kind |-> "calendar#events", items |-> s] : s \in SeqsUpTo(Events, MaxItems)}

\* users().messages().list(...).execute(): 'messages' is left out or lists ids.
MessageRefs == {[id |-> m] : m \in MessageIds}
MessagesResponses == {Raised, [resultSizeEstimate |-> 0]} \cup {[resultSizeEstimate |-> Len(s), messages |-> s] : s \in SeqsUpTo(MessageRefs, MaxItems)}

\* Message headers.
HeaderSet == {[name |-> "Subject", value |-> "Hello"], [name |-> "Subject", value |-> "Re: Hello"], [name |-> "From", value |-> "ann@example.com"], [name |-> "From", value |-> "bob@example.com"], [name |-> "To", value |-> "me@example.com"]}
HeaderLists == SeqsUpTo(HeaderSet, MaxHeaders)

\* body.data as the provider sends it, character by character: "" (empty),
\* "aGk=" (hi), "aGk" (padding missing), "w6k=" (U+00E9), "_w==" (byte 0xFF).
DataValues == {<<>>, <<"a", "G", "k", "=">>, <<"a", "G", "k">>, <<"w", "6", "k", "=">>, <<"_", "w", "=", "=">>}

\* A MessagePartBody: 'data' is left out of a body that has none.
NoData == [size |-> 0]
Bodies == {NoData} \cup {[size |-> Len(d), data |-> d] : d \in DataValues}
Parts == {[body |-> b] : b \in Bodies}
PartLists == SeqsUpTo(Parts, MaxParts) \ {<<>>}

\* users().messages().get(...).execute(): 'parts' is present in a multipart payload.
SinglePartEmails == {[payload |-> [headers |-> h, body |-> b]] : h \in HeaderLists, b \in Bodies}
MultipartEmails == {[payload |-> [headers |-> h, body |-> NoData, parts |-> ps]] : h \in HeaderLists, ps \in PartLists}
Emails == SinglePartEmails \cup MultipartEmails

\* The emails told apart by their headers alone (search_emails and get_emails
\* read nothing else of a message).
HeaderEmails == {[payload |-> [headers |-> h, body |-> NoData]] : h \in HeaderLists}

\* Representative payloads, one or more per branch of the handlers.
SampleHeaders == <<[name |-> "To", value |-> "me@example.com"], [name |-> "Subject", value |-> "Hello"]>>
SampleEvents == {[start |-> [date |-> "2024-01-02"], summary |-> "Lunch"], [start |-> [dateTime |-> "2024-01-01T09:00:00Z"]]}
SampleEventsResponses == {Raised, [kind |-> "calendar#events"]} \cup {[kind |-> "calendar#events", items |-> s] : s \in SeqsUpTo(SampleEvents, 1)}
SampleMessagesResponses == {Raised, [resultSizeEstimate |-> 0], [resultSizeEstimate |-> 1, messages |-> <<[id |-> "m1"]>>], [resultSizeEstimate |-> 2, messages |-> <<[id |-> "m2"], [id |-> "m1"]>>]}
SampleHeaderEmails == {[payload |-> [headers |-> <<>>, body |-> NoData]], [payload |-> [headers |-> SampleHeaders, body |-> NoData]]}
SampleEmails == {[payload |-> [headers |-> SampleHeaders, body |-> b]] : b \in Bodies} \cup {[payload |-> [headers |-> <<>>, body |-> NoData, parts |-> <<[body |-> b]>>]] : b \in Bodies}

\* ------------------------------------------------------- handler results
\* line 93: event['start'].get('dateTime', event['start'].get('date'))
StartOf(event) == Get(event.start, "dateTime", Get(event.start, "date", "None"))

\* line 94
EventBlock(event) == <<"Event: ", event.summary, "\nTime: ", StartOf(event), "\n---">>

\* line 136
MessageBlock(id, sender, subject) == <<"ID: ", id, "\nFrom: ", sender, "\nSubject: ", subject, "\n---">>

\* line 187
InboxBlock(sender, subject) == <<"From: ", sender, "\nSubject: ", subject, "\n---">>

\* lines 134, 151, 185 and 135, 152, 186
SubjectOf(headers) == NextValue(headers, "Subject", "No Subject")
SenderOf(headers) == NextValue(headers, "From", "Unknown")

\* lines 87-96: the result of list_events for a list response.
ListEventsReturn(r) == LET events == Get(r, "items", <<>>)
                       IN  IF events = <<>> THEN [result |-> <<"No upcoming events found">>]
                           ELSE IF \E i \in 1..Len(events) : "summary" \notin DOMAIN events[i]
                                THEN Except("list_events", "KeyError: 'summary'")
                                ELSE [result |-> JoinLines([i \in 1..Len(events) |-> EventBlock(events[i])])]

\* line 138 and line 189: the return of the message loops.
MessagesReturn(h, blocks) == IF h = "search_emails"
                             THEN [result |-> IF blocks # <<>> THEN JoinLines(blocks) ELSE <<"No emails found">>]
                             ELSE [text |-> IF blocks # <<>> THEN JoinLines(blocks) ELSE <<"No messages found">>]

\* Fault variant: the top-level body is read even of a multipart payload.
ContentOf_top(payload) == Get(payload.body, "data", <<>>)
\* lines 154-157: the data of the first part of a multipart payload, else of
\* the top-level body; '' when the body has no 'data'.
ContentOf(payload) == IF "parts" \in DOMAIN payload
                      THEN Get(payload.parts[1].body, "data", <<>>)
                      ELSE Get(payload.body, "data", <<>>)

\* line 162
ContentResult(sender, subject, text) == [result |-> <<"From: ", sender, "\nSubject: ", subject, "\n\nContent:\n">> \o text]

\* lines 150-163: the result of get_email_content for a fetched message.
GetEmailContentReturn(e) == LET headers == e.payload.headers
                                content == ContentOf(e.payload)
                            IN  IF content = <<>>
                                THEN ContentResult(SenderOf(headers), SubjectOf(headers), <<"No content">>)
                                ELSE IF ~B64Ok(content)
                                     THEN Except("get_email_content", "binascii.Error: Incorrect padding")
                                     ELSE LET u == Utf8Decode(B64Bytes(content))
                                          IN  IF ~u.ok
                                              THEN Except("get_email_content", "UnicodeDecodeError")
                                              ELSE ContentResult(SenderOf(headers), SubjectOf(headers), Text(u.text))

\* ------------------------------------------------------------------ state
\* store     token.pickle: a credential record, or None when the file is absent
\* pc        where the running invocation stands ("idle": none runs)
\* handler   the handler invoked
\* creds     get_credentials' local creds
\* service   the client build() returned: its api and its credentials
\* ret       what the handler returned
\* log       what the invocation did so far, in order
\* preStore  token.pickle as the invocation found it
\* resp      the response of the handler's first provider request
\* idx       the position of the message loop
\* messages  the blocks the message loop has appended
\* email     the message fetched last
VARIABLES store, pc, handler, creds, service, ret, log, preStore, resp, idx, messages, email

vars == <<store, pc, handler, creds, service, ret, log, preStore, resp, idx, messages, email>>

\* No invocation runs and none has run since token.pickle last changed.
Idle(file) == /\ store = file
              /\ pc = "idle"
              /\ handler = "none"
              /\ creds = None
              /\ service = None
              /\ ret = None
              /\ log = <<>>
              /\ preStore = file
              /\ resp = None
              /\ idx = 0
              /\ messages = <<>>
              /\ email = None

Init == \E file \in TokenFiles : Idle(file)

\* The runtime dispatches an invocation to handler h (the previous one returned).
Invoke(h) == /\ pc \in {"idle", "done"}
             /\ handler' = h
             /\ pc' = "get_credentials"
             /\ creds' = None
             /\ service' = None
             /\ ret' = None
             /\ log' = <<>>
             /\ preStore' = store
             /\ resp' = None
             /\ idx' = 0
             /\ messages' = <<>>
             /\ email' = None
             /\ UNCHANGED store

\* The stored access token's expiry passes between two invocations.
TimePasses == /\ pc \in {"idle", "done"}
              /\ store # None
              /\ ~store.expired
              /\ pc' = "idle"
              /\ store' = [store EXCEPT !.expired = TRUE]
              /\ handler' = "none"
              /\ creds' = None
              /\ service' = None
              /\ ret' = None
              /\ log' = <<>>
              /\ preStore' = store'
              /\ resp' = None
              /\ idx' = 0
              /\ messages' = <<>>
              /\ email' = None

\* An exception e reaches the handler's except clause, which returns.
Catch(e, events) == /\ ret' = Except(handler, e)
                    /\ log' = log \o events
                    /\ pc' = "done"

\* lines 27-32: load token.pickle and choose the branch.
LoadToken == /\ pc = "get_credentials"
             /\ creds' = store
             /\ pc' = IF ~NeedsAuthorization(store) THEN "return"
                      ELSE IF CanRefresh(store) THEN "refresh"
                      ELSE "flow"
             /\ UNCHANGED <<store, handler, service, ret, log, preStore, resp, idx, messages, email>>

\* line 33: creds.refresh(Request()) succeeds with a new access token, or raises.
Refresh == /\ pc = "refresh"
           /\ \/ /\ \E t \in Tokens \ {creds.token} : creds' = Refreshed(creds, t)
                 /\ log' = Append(log, "refresh")
                 /\ pc' = "persist"
                 /\ UNCHANGED ret
              \/ /\ IF AfterRefreshError = "raise"
                    THEN Catch("RefreshError", <<"refresh", "refresh_failed">>)
                    ELSE /\ log' = log \o <<"refresh", "refresh_failed">>
                         /\ pc' = AfterRefreshError
                         /\ UNCHANGED ret
                 /\ UNCHANGED creds
           /\ UNCHANGED <<store, handler, service, preStore, resp, idx, messages, email>>

\* lines 35-36: the interactive flow completes with new credentials, or raises.
RunFlow == /\ pc = "flow"
           /\ \/ /\ \E t \in Tokens, r \in BOOLEAN : creds' = FlowCredentials(t, r)
                 /\ log' = Append(log, "flow")
                 /\ pc' = "persist"
                 /\ UNCHANGED ret
              \/ /\ Catch("FlowError", <<"flow", "flow_failed">>)
                 /\ UNCHANGED creds
           /\ UNCHANGED <<store, handler, service, preStore, resp, idx, messages, email>>

\* lines 37-38: write token.pickle.
Persist == /\ pc = "persist"
           /\ store' = Dump(store, creds)
           /\ log' = Append(log, "write")
           /\ pc' = "return"
           /\ UNCHANGED <<handler, creds, service, ret, preStore, resp, idx, messages, email>>

\* line 39 and lines 43-44, 48-49: return creds; build the service with them.
ReturnCredentials == /\ pc = "return"
                     /\ service' = [api |-> Api(handler), credentials |-> creds]
                     /\ log' = Append(log, "return")
                     /\ pc' = FirstCall(handler)
                     /\ UNCHANGED <<store, handler, creds, ret, preStore, resp, idx, messages, email>>

\* A provider request answered by r: the response is kept, a raise is caught.
Request(r, onResponse) == /\ resp' = r
                          /\ IF r = Raised
                             THEN Catch("HttpError", <<"api", "api_failed">>)
                             ELSE /\ log' = Append(log, "api")
                                  /\ pc' = "done"
                                  /\ ret' = onResponse

\* lines 56-66: send_email's request and result.
SendCall == /\ pc = "send"
            /\ \E r \in SendResponses :
                  Request(r, [result |-> <<"Email sent successfully (Message ID: ", r.id, ")">>])
            /\ UNCHANGED <<store, handler, creds, service, preStore, idx, messages, email>>

\* lines 106-114: create_event's request and result.
InsertCall == /\ pc = "insert"
              /\ \E r \in InsertResponses :
                    Request(r, [result |-> <<"Event created: ", Get(r, "htmlLink", "None")>>])
              /\ UNCHANGED <<store, handler, creds, service, preStore, idx, messages, email>>

\* lines 77-96: list_events' request and result.
ListEventsCall(responses) == /\ pc = "list_events"
                             /\ \E r \in responses : Request(r, ListEventsReturn(r))
                             /\ UNCHANGED <<store, handler, creds, service, preStore, idx, messages, email>>

\* lines 148-163: get_email_content's request and result.
GetMessageCall(responses) == /\ pc = "get_message"
                             /\ \E r \in responses \cup {Raised} :
                                   /\ email' = r
                                   /\ IF r = Raised
                                      THEN Catch("HttpError", <<"api", "api_failed">>)
                                      ELSE /\ log' = Append(log, "api")
                                           /\ pc' = "done"
                                           /\ ret' = GetEmailContentReturn(r)
                             /\ UNCHANGED <<store, handler, creds, service, preStore, resp, idx, messages>>

\* lines 124-128 and 173-176: the list request of search_emails and get_emails.
ListMessagesCall(responses) == /\ pc = "list_messages"
                               /\ \E r \in responses :
                                     /\ resp' = r
                                     /\ IF r = Raised
                                        THEN /\ Catch("HttpError", <<"api", "api_failed">>)
                                             /\ UNCHANGED idx
                                        ELSE /\ log' = Append(log, "api")
                                             /\ pc' = "fetch"
                                             /\ idx' = 1
                                             /\ UNCHANGED ret
                               /\ UNCHANGED <<store, handler, creds, service, preStore, messages, email>>

\* results.get('messages', [])
Listed == Get(resp, "messages", <<>>)

\* lines 131-136 and 179-187: one turn of the message loop.
FetchMessage(responses) == /\ pc = "fetch"
                           /\ idx <= Len(Listed)
                           /\ \E r \in responses \cup {Raised} :
                                 /\ email' = r
                                 /\ IF r = Raised
                                    THEN /\ Catch("HttpError", <<"api", "api_failed">>)
                                         /\ UNCHANGED <<idx, messages>>
                                    ELSE /\ log' = Append(log, "api")
                                         /\ messages' = Append(messages,
                                               IF handler = "search_emails"
                                               THEN MessageBlock(Listed[idx].id, SenderOf(r.payload.headers), SubjectOf(r.payload.headers))
                                               ELSE InboxBlock(SenderOf(r.payload.headers), SubjectOf(r.payload.headers)))
                                         /\ idx' = idx + 1
                                         /\ UNCHANGED <<pc, ret>>
                           /\ UNCHANGED <<store, handler, creds, service, preStore, resp>>

\* lines 138 and 189: the loop is over; return.
ReturnMessages == /\ pc = "fetch"
                  /\ idx > Len(Listed)
                  /\ ret' = MessagesReturn(handler, messages)
                  /\ pc' = "done"
                  /\ UNCHANGED <<store, handler, creds, service, log, preStore, resp, idx, messages, email>>

\* The adapter: invocations one at a time, token.pickle as found, the provider
\* answering with the representative payloads.
Next == \/ \E h \in Handlers : Invoke(h)
        \/ TimePasses
        \/ LoadToken
        \/ Refresh
        \/ RunFlow
        \/ Persist
        \/ ReturnCredentials
        \/ SendCall
        \/ InsertCall
        \/ ListEventsCall(SampleEventsResponses)
        \/ GetMessageCall(SampleEmails)
        \/ ListMessagesCall(SampleMessagesResponses)
        \/ FetchMessage(SampleHeaderEmails)
        \/ ReturnMessages

Spec == Init /\ [][Next]_vars

\* The handlers from build() on, under valid credentials for SCOPES, the
\* provider answering with every payload within the bounds.
GrantedCredentials == FlowCredentials(1, TRUE)

InitProvider == \E h \in Handlers :
                   /\ store = GrantedCredentials
                   /\ pc = FirstCall(h)
                   /\ handler = h
                   /\ creds = GrantedCredentials
                   /\ service = [api |-> Api(h), credentials |-> GrantedCredentials]
                   /\ ret = None
                   /\ log = <<"return">>
                   /\ preStore = GrantedCredentials
                   /\ resp = None
                   /\ idx = 0
                   /\ messages = <<>>
                   /\ email = None

NextProvider == \/ SendCall
                \/ InsertCall
                \/ ListEventsCall(EventsResponses)
                \/ GetMessageCall(Emails)
                \/ ListMessagesCall(MessagesResponses)
                \/ FetchMessage(HeaderEmails)
                \/ ReturnMessages

SpecProvider == InitProvider /\ [][NextProvider]_vars

\* ----------------------------------------------------------------- claims
Count(e) == Cardinality({i \in DOMAIN log : log[i] = e})
Has(e) == Count(e) > 0
Position(e) == CHOOSE i \in DOMAIN log : log[i] = e

Running == pc # "idle"
\* get_credentials has returned or raised.
AcquireDone == Has("return") \/ pc = "done"

IsEnvelope(r) == DOMAIN r = {"result"} \/ DOMAIN r = {"error"}

\* C1: a tool that has returned has returned an envelope holding exactly one of
\* result and error, whatever credential acquisition and the provider did; no
\* tool returns anything before it is done, and no raised exception is left over.
C1_EnvelopeContract == /\ (pc = "done" /\ handler \in Tools) => IsEnvelope(ret)
                       /\ (Running /\ pc # "done") => ret = None
                       /\ ret # Raised

\* C1's case: a tool caught an exception raised after the provider answered.
C1_Witness == /\ pc = "done"
              /\ handler = "get_email_content"
              /\ Has("api")
              /\ ~Has("api_failed")
              /\ DOMAIN ret = {"error"}

\* token.pickle as the invocation found it: expired, with a refresh token.
RefreshablePre == preStore # None /\ preStore.expired /\ preStore.refresh_token

\* C2: an invocation that found an expired record with a refresh token never
\* runs the interactive flow and calls refresh at most once, exactly once by
\* the time get_credentials is over.
C2_RefreshOnce == (Running /\ RefreshablePre) =>
                     /\ Count("flow") = 0
                     /\ Count("refresh") <= 1
                     /\ AcquireDone => Count("refresh") = 1

\* C2's case: such an invocation got its credentials and ended.
C2_Witness == Running /\ RefreshablePre /\ Has("return") /\ pc = "done"

\* C3: an invocation that found no token.pickle never calls refresh, runs the
\* interactive flow at most once, exactly once by the time get_credentials is
\* over, and when get_credentials returns, token.pickle was written once, before
\* the return, and holds the record returned.
C3_AbsentRecordAuthorizes == (Running /\ preStore = None) =>
                                /\ Count("refresh") = 0
                                /\ Count("flow") <= 1
                                /\ AcquireDone => Count("flow") = 1
                                /\ Has("return") =>
                                      /\ Count("write") = 1
                                      /\ Position("write") < Position("return")
                                      /\ Position("flow") < Position("write")
                                      /\ store # None
                                      /\ store = service.credentials

\* C3's case: get_credentials returned after finding no token.pickle.
C3_Witness == Running /\ preStore = None /\ Has("return") /\ pc = "done"

\* C4 as stated: after a failed refresh get_credentials goes on to the
\* interactive flow within the same call.
C4_Original == (RefreshablePre /\ Has("refresh_failed") /\ AcquireDone) => Has("flow")

\* C4 as amended: a failed refresh ends the invocation at once: no interactive
\* flow, no write of token.pickle, no credentials returned, no provider request,
\* and the handler returns the refresh error.
C4_RefreshFailureRaises == Has("refresh_failed") =>
                              /\ RefreshablePre
                              /\ pc = "done"
                              /\ ~Has("flow")
                              /\ ~Has("write")
                              /\ ~Has("return")
                              /\ ~Has("api")
                              /\ store = preStore
                              /\ handler \in Tools => ret = [error |-> <<"RefreshError">>]
                              /\ handler \in Resources => ret = [text |-> <<"RefreshError">>]

\* C4's case: the refresh failed in an invocation of a tool.
C4_Witness == Has("refresh_failed") /\ handler = "send_email" /\ pc = "done"

\* token.pickle as the invocation found it: unexpired and granted all of SCOPES.
ValidPre == preStore # None /\ ~preStore.expired /\ SCOPES \subseteq preStore.scopes

\* C5: an invocation that found an unexpired record granted all of SCOPES does
\* no refresh, no interactive flow and no write; token.pickle stays as found,
\* get_credentials does not fail and returns the record as found.
C5_ValidRecordUnchanged == (Running /\ ValidPre) =>
                              /\ ~Has("refresh")
                              /\ ~Has("flow")
                              /\ ~Has("write")
                              /\ store = preStore
                              /\ Has("return") => service.credentials = preStore
                              /\ pc = "done" => Has("return")

\* C5's case: such an invocation got its credentials and ended.
C5_Witness == Running /\ ValidPre /\ Has("return") /\ pc = "done"

\* C6 as stated: the credentials handed to the provider client cover all of
\* SCOPES, and no tool returns a result under credentials that do not.
C6_ScopesCovered == /\ service # None => SCOPES \subseteq service.credentials.scopes
                    /\ (pc = "done" /\ DOMAIN ret \in {{"result"}, {"text"}} /\ service # None) =>
                          SCOPES \subseteq service.credentials.scopes

\* The start of an event as the provider's schema reads: dateTime, else date.
ExpectedStart(event) == IF "dateTime" \in DOMAIN event.start THEN event.start.dateTime ELSE event.start.date

KnownText(d) == CASE d = <<"a", "G", "k", "=">> -> <<"h", "i">>
                  [] d = <<"w", "6", "k", "=">> -> <<"U+00E9">>
                  [] OTHER -> <<"undecodable">>

\* The body get_email_content reads: of the first part if multipart, else the top-level one.
LocatedBody(payload) == IF "parts" \in DOMAIN payload THEN payload.parts[1].body ELSE payload.body
HasData(body) == "data" \in DOMAIN body /\ body.data # <<>>

\* C8: for a fetched message whose located body has no data, get_email_content
\* returns a result whose content is "No content"; with data, a result's content
\* is the decoded data of that body, and an error comes only of data that
\* does not decode.
C8_Content == (pc = "done" /\ handler = "get_email_content" /\ email # Raised) =>
                 LET body == LocatedBody(email.payload)
                 IN  /\ ~HasData(body) =>
                           /\ DOMAIN ret = {"result"}
                           /\ SubSeq(ret.result, 6, Len(ret.result)) = <<"No content">>
                     /\ (HasData(body) /\ "result" \in DOMAIN ret) =>
                           /\ SubSeq(ret.result, 6, Len(ret.result)) = KnownText(body.data)
                           /\ ret.result[5] = "\n\nContent:\n"
                     /\ (HasData(body) /\ "error" \in DOMAIN ret) =>
                           KnownText(body.data) = <<"undecodable">>

\* C8's case: a multipart message whose first part has no data and whose second has.
C8_Witness == /\ pc = "done"
              /\ handler = "get_email_content"
              /\ email # Raised
              /\ "parts" \in DOMAIN email.payload
              /\ Len(email.payload.parts) = 2
              /\ ~HasData(email.payload.parts[1].body)
              /\ HasData(email.payload.parts[2].body)
              /\ DOMAIN ret = {"result"}

\* The value of the first header named name, else the default.
ExpectedValue(headers, name, default) == LET at == {i \in DOMAIN headers : headers[i].name = name}
                                         IN  IF at = {} THEN default
                                             ELSE headers[CHOOSE i \in at : \A j \in at : i <= j].value

\* C9: whatever headers a fetched message has, the subject the handler puts
\* out is the value of its first Subject header, else "No Subject", the sender
\* that of its first From header, else "Unknown"; and no error comes of a
\* header that is missing.
C9_HeaderDefaults == /\ (handler \in {"search_emails", "get_emails"} /\ email # None /\ email # Raised) =>
                           LET headers == email.payload.headers
                               block == messages[Len(messages)]
                               at == IF handler = "search_emails" THEN 4 ELSE 2
                           IN  /\ block[at] = ExpectedValue(headers, "From", "Unknown")
                               /\ block[at + 2] = ExpectedValue(headers, "Subject", "No Subject")
                               /\ pc = "done" => DOMAIN ret \in {{"result"}, {"text"}}
                     /\ (handler = "get_email_content" /\ pc = "done" /\ email # Raised) =>
                           LET headers == email.payload.headers
                           IN  /\ "result" \in DOMAIN ret =>
                                     /\ ret.result[2] = ExpectedValue(headers, "From", "Unknown")
                                     /\ ret.result[4] = ExpectedValue(headers, "Subject", "No Subject")
                               /\ "error" \in DOMAIN ret => HasData(LocatedBody(email.payload))

\* C9's case: search_emails returned for a message with two From headers and no Subject.
C9_Witness == /\ pc = "done"
              /\ handler = "search_emails"
              /\ email # None
              /\ email # Raised
              /\ Len(email.payload.headers) = 2
              /\ \A i \in 1..2 : email.payload.headers[i].name = "From"
              /\ email.payload.headers[1].value # email.payload.headers[2].value
              /\ "result" \in DOMAIN ret

RefreshSucceeded == Has("refresh") /\ ~Has("refresh_failed")
FlowSucceeded == Has("flow") /\ ~Has("flow_failed")
AcquireFailed == Has("refresh_failed") \/ Has("flow_failed")

\* What C10 says of the store's changes and of a failed acquisition.
C10_Common == /\ Count("write") <= 1
              /\ store # preStore => Has("write")
              /\ Has("write") =>
                    /\ RefreshSucceeded \/ FlowSucceeded
                    /\ store = creds
                    /\ Has("return") => store = service.credentials
              /\ AcquireFailed =>
                    /\ store = preStore
                    /\ pc = "done"
                    /\ ~Has("api")
                    /\ ~Has("return")
                    /\ Count("refresh") + Count("flow") = 1

\* C10 as stated: ... and an invocation in which a provider request fails
\* leaves token.pickle as it was before the invocation.
C10_Original == Running => (C10_Common /\ (Has("api_failed") => store = preStore))

\* C10 as amended: token.pickle changes only in an invocation whose refresh or
\* interactive flow succeeded, and then holds the record get_credentials
\* returns; a failed refresh or flow leaves it as it was, and no provider
\* request or second attempt follows; a failed provider request leaves it as
\* get_credentials left it.
C10_StoreFrame == Running =>
                     /\ C10_Common
                     /\ Has("api_failed") =>
                           /\ store = service.credentials
                           /\ ~Has("write") => store = preStore

\* C10's case: the refresh succeeded, then a provider request failed.
C10_Witness == Running /\ RefreshSucceeded /\ Has("api_failed") /\ pc = "done" /\ store # preStore

====
